---- MODULE Spec2Model ----
(***************************************************************************)
(* Model of the /split-calendar service: the token_required decorator     *)
(* (Access Resolver), the endpoint handler / process_calendar_posts       *)
(* (Orchestrator + Transform) and upsert_batch (Batch Writer), talking to *)
(* a store with row-level security and an identity provider.              *)
(*                                                                         *)
(* The repository holds three variants of the same service:               *)
(*   "main"    : src/main.py (decorator, upsert_batch and route in one)    *)
(*   "modular" : src/auth/auth.py + src/posts/processor.py + utils.py      *)
(*   "legacy"  : src/auth.py     + src/posts/processor.py + utils.py      *)
(* The variable deployment says which one a behaviour runs.               *)
(*                                                                         *)
(* Python values: strings are TLA+ strings, None is the string None,      *)
(* lists are sequences, dicts are records / functions.                    *)
(***************************************************************************)
EXTENDS Integers, Sequences, FiniteSets, TLC

VARIABLES env, deployment, AUTH_ENABLED, admin_client_ok, calendar_data, posts, req

vars == <<env, deployment, AUTH_ENABLED, admin_client_ok, calendar_data, posts, req>>

(***************************************************************************)
(* Bounds and program constants                                            *)
(***************************************************************************)
BigCount == 51

BATCH_SIZE == 50

MAX_ATTEMPTS == 3

\* request slots: two clients can be in flight at the same time
Requests == {1, 2}

Deployments == {"main", "modular", "legacy"}

None == "<None>"

Min(a, b) == IF a < b THEN a ELSE b

(***************************************************************************)
(* Identity provider and profiles table                                    *)
(***************************************************************************)
SP == " "

\* auth.get_user(jwt=token): the subject of a token, "reject" when the
\* provider raises AuthApiError, None when it answers without a user.
GetUser(token) ==
    CASE token = <<"tokAdmin">> -> "uA"
      [] token = <<"tokUser">> -> "uB"
      [] token = <<"tokEditor">> -> "uC"
      [] token = <<"tokNoRole">> -> "uD"
      [] token = <<"tokNoProfile">> -> "uE"
      [] token = <<"tokGhost">> -> None
      [] OTHER -> "reject"

\* profiles: id -> profile row (only the selected column "role")
Profiles ==
    [uA |-> [role |-> "admin"],
     uB |-> [role |-> "user"],
     uC |-> [role |-> "editor"],
     uD |-> [role |-> None]]

\* from_("profiles").select("role").eq("id", uid).single().execute().data
\* is a dict when the row exists (HasProfile) and None otherwise
HasProfile(uid) == uid \in DOMAIN Profiles

ProfileRole(uid) == Profiles[uid].role

(***************************************************************************)
(* Data handles (supabase clients)                                         *)
(***************************************************************************)
\* create_client(SUPABASE_URL, SUPABASE_SERVICE_KEY), built once at import
AdminClient == [key |-> "service_role", token |-> <<>>, builtBy |-> 0]

\* one restricted handle kept at module level and handed to every request
UserClient_Cached(r, token) ==
    [key |-> "anon", token |-> <<"tokUser">>, builtBy |-> 1]

\* create_client(SUPABASE_URL, SUPABASE_ANON_KEY) + postgrest.auth(token)
UserClient(r, token) == [key |-> "anon", token |-> token, builtBy |-> r]

NoClient == [key |-> "none", token |-> <<>>, builtBy |-> 0]

\* a store without row-level security
Visible_NoRls(client, owner) == client.key \in {"service_role", "anon"}

\* Row-level security: the service key bypasses it; an anon-key handle sees
\* exactly the rows owned by the subject of the token it was authenticated with
Visible(client, owner) ==
    \/ client.key = "service_role"
    \/ client.key = "anon" /\ GetUser(client.token) = owner

(***************************************************************************)
(* Authorization header: a string is a sequence of symbols, SP the space  *)
(***************************************************************************)
Headers ==
    { <<>>,
      <<"Bearer">>,
      <<"Bearer", SP>>,
      <<"Bearer", SP, "tokAdmin">>,
      <<"Bearer", SP, "tokUser">>,
      <<"Bearer", SP, "tokEditor">>,
      <<"Bearer", SP, "tokNoRole">>,
      <<"Bearer", SP, "tokNoProfile">>,
      <<"Bearer", SP, "tokGhost">>,
      <<"Bearer", SP, "tokExpired">>,
      <<"Bearer", SP, SP, "tokUser">>,
      <<"tokUser">> }

NoHeader == <<None>>

FirstSpace(s) ==
    IF \E i \in 1..Len(s) : s[i] = SP
    THEN CHOOSE i \in 1..Len(s) : s[i] = SP /\ \A j \in 1..(i - 1) : s[j] # SP
    ELSE 0

RECURSIVE Split(_)
\* str.split(" ")
Split(s) ==
    IF FirstSpace(s) = 0
    THEN <<s>>
    ELSE <<SubSeq(s, 1, FirstSpace(s) - 1)>>
         \o Split(SubSeq(s, FirstSpace(s) + 1, Len(s)))

(***************************************************************************)
(* Responses and the request context g                                     *)
(***************************************************************************)
NoResponse == [status |-> 0, body |-> [none |-> TRUE]]

ErrorResponse(code, msg) == [status |-> code, body |-> [error |-> msg]]

NoG == [current_user_id |-> None, current_user_role |-> None,
        supabase_client |-> NoClient]

\* the message an exception of the identity provider carries
ProviderMessage == "invalid JWT"

InvalidFormatMessage(dep) ==
    IF dep = "modular"
    THEN "Invalid Authorization header format. Expected: 'Bearer <token>'"
    ELSE "Invalid Authorization header format"

\* what the decorator hands on: proceed = TRUE means f(*args, **kwargs) is
\* called with context g; otherwise response is returned and f is not called
Proceed(g, idp, prof) ==
    [proceed |-> TRUE, g |-> g, response |-> NoResponse,
     idpCalls |-> idp, profileReads |-> prof]

Reject(resp, idp, prof) ==
    [proceed |-> FALSE, g |-> NoG, response |-> resp,
     idpCalls |-> idp, profileReads |-> prof]

\* ResolveToken that goes on with an empty role when the profile is missing
ResolveToken_IgnoreMissingProfile(dep, r, token) ==
    LET uid == GetUser(token) IN
    IF uid = "reject"
    THEN Reject(ErrorResponse(401, "Authentication failed: " \o ProviderMessage), 1, 0)
    ELSE IF uid = None
    THEN Reject(ErrorResponse(401,
                  "Authentication failed: Invalid token or user not found"), 1, 0)
    ELSE LET role == IF HasProfile(uid) THEN ProfileRole(uid) ELSE None IN
         Proceed([current_user_id |-> uid,
                  current_user_role |-> role,
                  supabase_client |->
                      IF role = "admin" THEN AdminClient ELSE UserClient(r, token)],
                 1, 1)

\* ResolveToken with the role test inverted to "anything but a plain user"
ResolveToken_AdminUnlessUser(dep, r, token) ==
    LET uid == GetUser(token) IN
    IF uid = "reject"
    THEN Reject(ErrorResponse(401, "Authentication failed: " \o ProviderMessage), 1, 0)
    ELSE IF uid = None
    THEN Reject(ErrorResponse(401,
                  "Authentication failed: Invalid token or user not found"), 1, 0)
    ELSE IF ~HasProfile(uid)
    THEN Reject(ErrorResponse(404, "User profile not found"), 1, 1)
    ELSE LET role == ProfileRole(uid) IN
         Proceed([current_user_id |-> uid,
                  current_user_role |-> role,
                  supabase_client |->
                      IF role # "user" THEN AdminClient ELSE UserClient(r, token)],
                 1, 1)

\* ResolveToken that reports a missing profile as an authentication failure
ResolveToken_ProfileAsAuthFailure(dep, r, token) ==
    LET uid == GetUser(token) IN
    IF uid = "reject"
    THEN Reject(ErrorResponse(401, "Authentication failed: " \o ProviderMessage), 1, 0)
    ELSE IF uid = None
    THEN Reject(ErrorResponse(401,
                  "Authentication failed: Invalid token or user not found"), 1, 0)
    ELSE IF ~HasProfile(uid)
    THEN Reject(ErrorResponse(401, "Authentication failed: User profile not found"),
                1, 1)
    ELSE LET role == ProfileRole(uid) IN
         Proceed([current_user_id |-> uid,
                  current_user_role |-> role,
                  supabase_client |->
                      IF role = "admin" THEN AdminClient ELSE UserClient(r, token)],
                 1, 1)

\* steps 1-4 of the decorator: validate the token, read the role, pick the client
ResolveToken(dep, r, token) ==
    LET uid == GetUser(token) IN
    IF uid = "reject"
    THEN Reject(ErrorResponse(401, "Authentication failed: " \o ProviderMessage), 1, 0)
    ELSE IF uid = None
    THEN Reject(ErrorResponse(401,
                  "Authentication failed: Invalid token or user not found"), 1, 0)
    ELSE IF ~HasProfile(uid)
    THEN Reject(ErrorResponse(404, "User profile not found"), 1, 1)
    ELSE LET role == ProfileRole(uid) IN
         Proceed([current_user_id |-> uid,
                  current_user_role |-> role,
                  supabase_client |->
                      IF role = "admin" THEN AdminClient ELSE UserClient(r, token)],
                 1, 1)

\* a disabled-enforcement branch that never looks at the admin client
AuthDisabled_NoAdminCheck(dep, adminOk) ==
    Proceed([current_user_id |-> "auth-disabled-admin",
             current_user_role |-> "admin",
             supabase_client |-> AdminClient], 0, 0)

\* the branch taken when AUTH_ENABLED is false
AuthDisabled(dep, adminOk) ==
    IF dep # "main" /\ ~adminOk
    THEN Reject(ErrorResponse(500,
                  "Auth is disabled but admin client failed to initialize"), 0, 0)
    ELSE Proceed([current_user_id |-> "auth-disabled-admin",
                  current_user_role |-> "admin",
                  supabase_client |-> AdminClient], 0, 0)

\* a test that only recognises the empty header value
HeaderMissing_EmptyOnly(dep, header) == header = <<>>

\* "authorization is None" in main.py, "not authorization" in the auth modules
HeaderMissing(dep, header) ==
    IF dep = "main" THEN header = NoHeader
    ELSE header = NoHeader \/ header = <<>>

\* token = authorization.split(" ")[1], with the emptiness test of the variant
TokenExtracted(dep, header) ==
    /\ Len(Split(header)) >= 2
    /\ (dep = "legacy" \/ Split(header)[2] # <<>>)

\* token_required.decorated_function up to the call of the wrapped handler
decorated_function(dep, enabled, adminOk, r, header) ==
    IF ~enabled THEN AuthDisabled(dep, adminOk)
    ELSE IF dep # "main" /\ ~adminOk
    THEN Reject(ErrorResponse(500,
                  "Admin client for authentication is not initialized"), 0, 0)
    ELSE IF HeaderMissing(dep, header)
    THEN Reject(ErrorResponse(401, "Authorization header is missing"), 0, 0)
    ELSE IF ~TokenExtracted(dep, header)
    THEN Reject(ErrorResponse(401, InvalidFormatMessage(dep)), 0, 0)
    ELSE ResolveToken(dep, r, Split(header)[2])

(***************************************************************************)
(* Store: the calendar_data table (read-only here) and its documents        *)
(***************************************************************************)
\* the status the filter of the variant selects
ApprovedMarker(dep) == IF dep = "main" THEN "ApprovedCalendar" ELSE "approved"

\* a status string that is the marker of the other variant
OtherMarker(dep) == IF dep = "main" THEN "approved" ELSE "ApprovedCalendar"

NoList == <<None>>

ValidDate == "2026-03-15T10:00:00Z"

Item(id, status, image_link, carousel, scheduled) ==
    [id |-> id, status |-> status, content_type |-> "post",
     image_link |-> image_link, carousel |-> carousel,
     scheduled_datetime |-> scheduled, storage_path |-> None]

SmallItems(dep) ==
    << Item("p1", ApprovedMarker(dep), "http://img/1", NoList, ValidDate),
       Item(None, ApprovedMarker(dep), "http://img/2", NoList, ValidDate),
       Item("p2", "draft", "http://img/3", NoList, None),
       Item("p3", ApprovedMarker(dep), None, <<"http://c/1", "http://c/2">>, "next week"),
       Item("", ApprovedMarker(dep), "", <<>>, "") >>

UnapprovedItems(dep) ==
    << Item("p1", "draft", "http://img/1", NoList, ValidDate),
       Item("p4", OtherMarker(dep), None, NoList, None) >>

BigItems(dep) ==
    [k \in 1..BigCount |->
        Item("b" \o ToString(k), ApprovedMarker(dep), "http://img/b", NoList, ValidDate)]

\* approved items that differ in their image reference and their date
ImageItems(dep) ==
    << Item("q1", ApprovedMarker(dep), "<int 7>", <<"http://c/9">>, None),
       Item("q2", ApprovedMarker(dep), "<int 7>", NoList, ValidDate),
       Item("q3", ApprovedMarker(dep), "", <<"http://c/1", "http://c/2">>, "31/12/2026"),
       Item("q4", ApprovedMarker(dep), "http://img/4", <<"http://c/3">>, ValidDate),
       Item("q5", ApprovedMarker(dep), None, <<>>, "") >>

\* two approved items with the same id, and an item that is not approved
DuplicateItems(dep) ==
    << Item("d1", ApprovedMarker(dep), "http://img/5", NoList, ValidDate),
       Item("d2", "draft", "http://img/6", NoList, ValidDate),
       Item("d1", ApprovedMarker(dep), "http://img/7", NoList, None) >>

\* approved items none of which has an id
AnonymousItems(dep) ==
    << Item(None, ApprovedMarker(dep), "http://img/8", NoList, ValidDate),
       Item("n1", "draft", "http://img/9", NoList, ValidDate),
       Item("", ApprovedMarker(dep), None, NoList, None) >>

CalendarRow(owner, platform, items) ==
    [user_id |-> owner, platform |-> platform,
     calendar_data |-> [content_items |-> items]]

\* the rows of calendar_data, by id
CalendarTable(dep) ==
    [cal1 |-> CalendarRow("uB", "instagram", SmallItems(dep)),
     cal2 |-> CalendarRow("uC", "linkedin", UnapprovedItems(dep)),
     calImg |-> CalendarRow("uC", "tiktok", ImageItems(dep)),
     calBad |-> CalendarRow("uB", "instagram", NoList),
     calDup |-> CalendarRow("uB", "linkedin", DuplicateItems(dep)),
     calNoId |-> CalendarRow("uC", "facebook", AnonymousItems(dep)),
     calBig |-> CalendarRow("uB", "facebook", BigItems(dep))]

CalendarIds ==
    {"cal1", "cal2", "calImg", "calBad", "calDup", "calNoId", "calBig", "calX"}

\* request.get_json(): the keys of the dict and the value of calendarRowId
Bodies ==
    {[fields |-> {}, calendarRowId |-> None],
     [fields |-> {"other"}, calendarRowId |-> None]}
    \cup {[fields |-> {"calendarRowId"}, calendarRowId |-> c] : c \in CalendarIds}

\* from_("calendar_data").select(...).eq("id", id).single().execute().data
\* is not None
FetchFound(client, table, id) ==
    id \in DOMAIN table /\ Visible(client, table[id].user_id)

(***************************************************************************)
(* Transform                                                               *)
(***************************************************************************)
\* Python truthiness of a string-or-None value
Truthy(v) == v # None /\ v # ""

NonStrings == {None, "<int 7>"}

IsStr(v) == v \notin NonStrings

\* a lenient parser that makes a date of every string
IsoParse_Guess(s) == [ok |-> TRUE, month |-> "March", year |-> "2026"]

\* date_parser.isoparse(s), dt.strftime("%B"), dt.year; ok = FALSE when it
\* raises ValueError
IsoParse(s) ==
    IF s = ValidDate
    THEN [ok |-> TRUE, month |-> "March", year |-> "2026"]
    ELSE [ok |-> FALSE, month |-> None, year |-> None]

RECURSIVE JoinQuoted(_)
JoinQuoted(list) ==
    IF Len(list) = 0 THEN ""
    ELSE IF Len(list) = 1 THEN "\"" \o list[1] \o "\""
    ELSE "\"" \o list[1] \o "\", " \o JoinQuoted(Tail(list))

\* json.dumps of a list of strings
JsonDumps(list) == "[" \o JoinQuoted(list) \o "]"

IsList(c) == c # NoList

\* an image resolution without the isinstance test
ResolveImage_AnyType(post) ==
    IF Truthy(post.image_link)
    THEN post.image_link
    ELSE IF IsList(post.carousel) /\ Len(post.carousel) > 0
    THEN JsonDumps(post.carousel)
    ELSE None

ResolveImage(post) ==
    IF Truthy(post.image_link) /\ IsStr(post.image_link)
    THEN post.image_link
    ELSE IF IsList(post.carousel) /\ Len(post.carousel) > 0
    THEN JsonDumps(post.carousel)
    ELSE None

\* str(uuid.uuid4()): fresh for every row of every request
NewUuid(r, idx) == <<r, idx>>

\* datetime.now(timezone.utc).isoformat() during request r
UtcNow(r) == <<"utc", r>>

WorkingStatus == "content_in_progress"

\* the dict appended to new_rows for one approved post that has an id
Transform(dep, post, row, calendar_id, r, idx, uid) ==
    IF dep = "main"
    THEN [id |-> NewUuid(r, idx),
          post_id |-> post.id,
          parent_calendar_id |-> calendar_id,
          user_id |-> row.user_id,
          platform |-> row.platform,
          status |-> post.status,
          content_type |-> post.content_type,
          image_link |-> ResolveImage(post),
          scheduled_datetime |-> post.scheduled_datetime,
          storage_path |-> post.storage_path,
          original_json |-> post,
          month |-> IF Truthy(post.scheduled_datetime)
                    THEN IsoParse(post.scheduled_datetime).month ELSE None,
          year |-> IF Truthy(post.scheduled_datetime)
                   THEN IsoParse(post.scheduled_datetime).year ELSE None]
    ELSE [id |-> NewUuid(r, idx),
          post_id |-> post.id,
          parent_calendar_id |-> calendar_id,
          user_id |-> row.user_id,
          platform |-> row.platform,
          status |-> WorkingStatus,
          content_type |-> post.content_type,
          image_link |-> ResolveImage(post),
          scheduled_datetime |-> post.scheduled_datetime,
          storage_path |-> post.storage_path,
          original_json |-> [post EXCEPT !.status = WorkingStatus],
          created_at |-> UtcNow(r),
          updated_at |-> UtcNow(r),
          updated_by |-> uid]

\* a filter that lets every item through
ApprovedPosts_All(dep, content_items) == content_items

\* approved_posts = [post for post in content_items if post.get("status") == marker]
ApprovedPosts(dep, content_items) ==
    SelectSeq(content_items, LAMBDA post : post.status = ApprovedMarker(dep))

\* a test for the absent id only
Skipped_NoneOnly(post) == post.id = None

\* "if not post_id: ... continue"
Skipped(post) == ~Truthy(post.id)

\* a loop that also drops an item whose id an earlier item already had
KeptPositions_Unique(approved) ==
    SelectSeq([k \in 1..Len(approved) |-> k],
              LAMBDA k : /\ ~Skipped(approved[k])
                         /\ \A j \in 1..(k - 1) : approved[j].id # approved[k].id)

\* the positions of approved_posts that pass "if not post_id: ... continue"
KeptPositions(approved) ==
    SelectSeq([k \in 1..Len(approved) |-> k], LAMBDA k : ~Skipped(approved[k]))

\* the loop that builds new_rows: one row per kept post, in list order
PrepareRows(dep, approved, row, calendar_id, r, uid) ==
    [j \in 1..Len(KeptPositions(approved)) |->
        Transform(dep, approved[KeptPositions(approved)[j]], row, calendar_id, r,
                  KeptPositions(approved)[j], uid)]

SkippedCount(approved) ==
    Cardinality({k \in 1..Len(approved) : Skipped(approved[k])})

(***************************************************************************)
(* Orchestrator: the endpoint handler                                      *)
(***************************************************************************)
NotFoundMessage == "Calendar data not found or access denied"

NothingMessage == "No approved posts to process."

SuccessMessage == "Successfully processed approved posts."

\* what process_calendar_posts hands to its caller
Raise(msg) == [kind |-> "raise", message |-> msg, result |-> [none |-> TRUE]]

Return(result) == [kind |-> "return", message |-> "", result |-> result]

\* the route around process_calendar_posts: it turns the result dict into a
\* 200 response and an exception into an error response
Route(outcome) ==
    IF outcome.kind = "return"
    THEN [status |-> 200,
          body |-> [k \in DOMAIN outcome.result \ {"success"} |-> outcome.result[k]]]
    ELSE IF outcome.message = NotFoundMessage
    THEN ErrorResponse(404, outcome.message)
    ELSE ErrorResponse(500, outcome.message)

\* a validation that lets every body through
BodyError_Lenient(data) == ""

\* the route's validation of the body against CalendarPayload
BodyError(data) ==
    IF data.fields = {} THEN "Invalid JSON payload"
    ELSE IF "calendarRowId" \notin data.fields
    THEN "Invalid payload: calendarRowId is required"
    ELSE ""

NoOutcome == [kind |-> "none", message |-> "", result |-> [none |-> TRUE]]

\* how a request ends: main.py builds its response itself (mainResp); in the
\* other variants process_calendar_posts ends with outcome and the route
\* turns that into the response
Result(dep, mainResp, outcome) ==
    IF dep = "main"
    THEN [response |-> mainResp, outcome |-> NoOutcome]
    ELSE [response |-> Route(outcome), outcome |-> outcome]

\* the body does not validate: answered before any processing
InvalidBodyResult(data) ==
    [response |-> ErrorResponse(400, BodyError(data)), outcome |-> NoOutcome]

\* calendar_res.data is None
NotFoundResult(dep) ==
    Result(dep, ErrorResponse(404, NotFoundMessage), Raise(NotFoundMessage))

\* an exception of the fetch itself
FetchErrorResult(dep) ==
    Result(dep, ErrorResponse(500, "ConnectError"), Raise("ConnectError"))

\* the message of the TypeError of iterating over content_items = null
DocumentErrorMessage == "'NoneType' object is not iterable"

\* an orchestrator without the handler at its boundary: the framework
\* answers with its own page
DocumentErrorResult_Unhandled(dep) ==
    Result(dep, ErrorResponse(500, "Internal Server Error"),
           Raise("Internal Server Error"))

\* an exception raised while the calendar document is read
DocumentErrorResult(dep) ==
    Result(dep, ErrorResponse(500, DocumentErrorMessage), Raise(DocumentErrorMessage))

\* "if not approved_posts"
NothingResult(dep) ==
    Result(dep,
           [status |-> 200, body |-> [message |-> NothingMessage]],
           Return([success |-> TRUE, message |-> NothingMessage,
                   approved_posts_found |-> 0, posts_saved_count |-> 0]))

\* a final return that reports "nothing to process" when no row was saved
SuccessResult_NothingWhenNoneSaved(dep, calendar_id, found, saved) ==
    IF saved = 0
    THEN NothingResult(dep)
    ELSE Result(dep,
           [status |-> 200,
            body |-> [message |-> SuccessMessage, processed_row_id |-> calendar_id,
                      approved_posts_found |-> found, posts_saved_count |-> saved]],
           Return([success |-> TRUE, message |-> SuccessMessage,
                   processed_row_id |-> calendar_id,
                   approved_posts_found |-> found, posts_saved_count |-> saved]))

\* the final return after the batch loop
SuccessResult(dep, calendar_id, found, saved) ==
    Result(dep,
           [status |-> 200,
            body |-> [message |-> SuccessMessage, processed_row_id |-> calendar_id,
                      approved_posts_found |-> found, posts_saved_count |-> saved]],
           Return([success |-> TRUE, message |-> SuccessMessage,
                   processed_row_id |-> calendar_id,
                   approved_posts_found |-> found, posts_saved_count |-> saved]))

\* "except Exception as e" around upsert_batch in the batch loop
BatchFailedResult(dep, msg) ==
    Result(dep, ErrorResponse(500, "Failed to save batch: " \o msg),
           Raise("Failed to save batch: " \o msg))

(***************************************************************************)
(* Batch Writer                                                            *)
(***************************************************************************)
\* a slice that stops one row early
Batch_Short(new_rows, i) ==
    SubSeq(new_rows, i + 1, Min(i + BATCH_SIZE - 1, Len(new_rows)))

\* batch = new_rows[i:i + BATCH_SIZE]
Batch(new_rows, i) == SubSeq(new_rows, i + 1, Min(i + BATCH_SIZE, Len(new_rows)))

\* batch_num = i // BATCH_SIZE + 1
BatchNum(i) == (i \div BATCH_SIZE) + 1

\* range(0, len(new_rows), BATCH_SIZE) has a next value after i
LoopDone(new_rows, i) == i + BATCH_SIZE >= Len(new_rows)

Keys(batch) == {batch[k].post_id : k \in 1..Len(batch)}

\* INSERT ... ON CONFLICT DO UPDATE refuses a batch that names a key twice
DuplicateKeys(batch) == Cardinality(Keys(batch)) < Len(batch)

\* a plain insert: nothing is overwritten
StoreUpsert_Insert(table, batch) == table \cup {batch[k] : k \in 1..Len(batch)}

\* an upsert whose conflict key is the surrogate id
StoreUpsert_OnId(table, batch) ==
    {row \in table : row.id \notin {batch[k].id : k \in 1..Len(batch)}}
        \cup {batch[k] : k \in 1..Len(batch)}

\* upsert(batch, on_conflict="post_id"): rows with a matching key are
\* overwritten, new keys are inserted
StoreUpsert(table, batch) ==
    {row \in table : row.post_id \notin Keys(batch)}
        \cup {batch[k] : k \in 1..Len(batch)}

\* a wrapper that retries whatever the exception
ShouldRetry_Any(kind, attempt) == attempt < MAX_ATTEMPTS

\* a wrapper that stops one attempt later
ShouldRetry_OneMore(kind, attempt) ==
    kind = "transient" /\ attempt < MAX_ATTEMPTS + 1

\* retry=retry_if_exception_type((ReadError, ConnectError)),
\* stop=stop_after_attempt(3): kind is "transient" for the two httpx
\* exceptions and "semantic" for every other exception
ShouldRetry(kind, attempt) == kind = "transient" /\ attempt < MAX_ATTEMPTS

(***************************************************************************)
(* State machine                                                           *)
(***************************************************************************)
\* the state of one request: pc is its position, header and data the inputs
\* it read, g the request context, the rest the locals of the handler.
\* History kept for the properties: saved_batches (first, last position of
\* every batch that was saved), reported (rows the store reported per batch),
\* errors (exceptions of the attempts of the current batch), failed_batch,
\* idpCalls, profileReads, handler_called, fetch (what the calendar_data
\* read gave: "none" not read, "raised", "null", "row", or "malformed" for a
\* row whose document has null in place of the item list), arrived_after
\* (requests answered before this one came), fetch_client (the handle the
\* calendar_data read went through), upsert_clients (the handles the upsert
\* calls went through) and upsert_calls (the number of upsert calls).
IdleRequest ==
    [pc |-> "idle", header |-> NoHeader, g |-> NoG,
     data |-> [fields |-> {}, calendarRowId |-> None],
     calendar_id |-> None, approved_posts_found |-> 0, skipped_count |-> 0,
     new_rows |-> <<>>, i |-> 0, attempt |-> 0, total_saved_count |-> 0,
     saved_batches |-> <<>>, reported |-> <<>>, errors |-> <<>>,
     failed_batch |-> 0, response |-> NoResponse, outcome |-> NoOutcome,
     idpCalls |-> 0, profileReads |-> 0, handler_called |-> FALSE,
     fetch |-> "none", arrived_after |-> {},
     fetch_client |-> NoClient, upsert_clients |-> {}, upsert_calls |-> 0]

\* module import: the configuration is read and the admin client is built;
\* main.py refuses to start without its keys, the auth modules only log
Boot(e) ==
    /\ env = e
    /\ deployment \in Deployments
    /\ AUTH_ENABLED \in BOOLEAN
    /\ admin_client_ok \in BOOLEAN
    /\ (deployment = "main" => admin_client_ok)
    /\ calendar_data = CalendarTable(deployment)
    /\ posts = {}
    /\ req = [r \in Requests |-> IdleRequest]

\* one client that may send any header and any body; its upsert calls are
\* counted
SoloEnv ==
    [requests |-> {1}, headers |-> Headers \cup {NoHeader}, bodies |-> Bodies,
     counting |-> TRUE]

\* two clients in flight together, each with a token the provider knows,
\* asking for a calendar row that exists
PairEnv ==
    [requests |-> {1, 2},
     headers |-> {<<"Bearer", SP, "tokAdmin">>, <<"Bearer", SP, "tokUser">>,
                  <<"Bearer", SP, "tokEditor">>},
     bodies |-> {[fields |-> {"calendarRowId"}, calendarRowId |-> c] :
                    c \in {"cal1", "calBig"}},
     counting |-> FALSE]

Init == Boot(SoloEnv)

\* the pair runs against a service started with enforcement on
InitPair ==
    Boot(PairEnv) /\ AUTH_ENABLED /\ admin_client_ok /\ deployment # "legacy"

\* a request arrives and runs through token_required.decorated_function
TokenRequired(r) ==
    /\ r \in env.requests
    /\ req[r].pc = "idle"
    /\ \A q \in Requests : q < r => req[q].pc # "idle"
    /\ \E header \in env.headers :
         LET d == decorated_function(deployment, AUTH_ENABLED, admin_client_ok,
                                     r, header)
         IN req' = [req EXCEPT ![r] =
                      [@ EXCEPT !.pc = IF d.proceed THEN "authorized" ELSE "responded",
                                !.header = header,
                                !.arrived_after =
                                    {q \in Requests : req[q].pc = "responded"},
                                !.g = d.g,
                                !.response = d.response,
                                !.idpCalls = d.idpCalls,
                                !.profileReads = d.profileReads]]
    /\ UNCHANGED <<env, deployment, AUTH_ENABLED, admin_client_ok, calendar_data, posts>>

\* the state of a request that answers without entering the batch loop
Answer(q, data, result, fetch) ==
    [q EXCEPT !.pc = "responded", !.handler_called = TRUE, !.data = data,
              !.response = result.response, !.outcome = result.outcome,
              !.fetch = fetch]

\* a handler that works with the admin client whoever the caller is
HandlerClient_Admin(g) == AdminClient

\* supabase_client = g.supabase_client: the one handle the handler reads
\* and writes with
HandlerClient(g) == g.supabase_client

\* the calendar_data read was sent through the handler's handle
Fetched(q, cid) == [q EXCEPT !.calendar_id = cid, !.fetch_client = HandlerClient(q.g)]

\* process_approved_posts / the route and process_calendar_posts, from the
\* read of g to the start of the batch loop
HandlerStart(dep, table, r, q, data, fetchFails) ==
    LET cid == data.calendarRowId
        client == HandlerClient(q.g)
        row == table[cid]
        approved == ApprovedPosts(dep, row.calendar_data.content_items)
        rows == PrepareRows(dep, approved, row, cid, r, q.g.current_user_id)
    IN
    IF BodyError(data) # ""
    THEN Answer(q, data, InvalidBodyResult(data), "none")
    ELSE IF fetchFails
    THEN Answer(Fetched(q, cid), data, FetchErrorResult(dep), "raised")
    ELSE IF ~FetchFound(client, table, cid)
    THEN Answer(Fetched(q, cid), data, NotFoundResult(dep), "null")
    ELSE IF row.calendar_data.content_items = NoList
    THEN Answer(Fetched(q, cid), data, DocumentErrorResult(dep),
                "malformed")
    ELSE IF Len(approved) = 0
    THEN Answer(Fetched(q, cid), data, NothingResult(dep), "row")
    ELSE IF Len(rows) = 0
    THEN Answer([Fetched(q, cid) EXCEPT
                          !.approved_posts_found = Len(approved),
                          !.skipped_count = SkippedCount(approved)],
                data, SuccessResult(dep, cid, Len(approved), 0), "row")
    ELSE [Fetched(q, cid) EXCEPT
                   !.pc = "writing", !.handler_called = TRUE, !.data = data,
                   !.fetch = "row",
                   !.approved_posts_found = Len(approved),
                   !.skipped_count = SkippedCount(approved),
                   !.new_rows = rows, !.i = 0, !.attempt = 1]

Handler(r) ==
    /\ req[r].pc = "authorized"
    /\ \E data \in env.bodies, fetchFails \in BOOLEAN :
         req' = [req EXCEPT ![r] =
                   HandlerStart(deployment, calendar_data, r, req[r], data, fetchFails)]
    /\ UNCHANGED <<env, deployment, AUTH_ENABLED, admin_client_ok, calendar_data, posts>>

\* a loop that counts the rows it submitted instead of the rows reported
AfterSaved_CountSubmitted(dep, q, n) ==
    LET batch == Batch(q.new_rows, q.i)
        saved == [q EXCEPT !.total_saved_count = @ + Len(batch),
                           !.saved_batches = Append(@, <<q.i + 1, q.i + Len(batch)>>),
                           !.reported = Append(@, n)]
    IN IF LoopDone(q.new_rows, q.i)
       THEN [saved EXCEPT !.pc = "responded",
                          !.response = SuccessResult(dep, q.calendar_id,
                                           q.approved_posts_found,
                                           q.total_saved_count + Len(batch)).response,
                          !.outcome = SuccessResult(dep, q.calendar_id,
                                          q.approved_posts_found,
                                          q.total_saved_count + Len(batch)).outcome]
       ELSE [saved EXCEPT !.i = @ + BATCH_SIZE, !.attempt = 1, !.errors = <<>>]

\* upsert_batch returned response.data with n rows: the loop goes on to the
\* next batch or the handler returns its summary
AfterSaved(dep, q, n) ==
    LET batch == Batch(q.new_rows, q.i)
        saved == [q EXCEPT !.total_saved_count = @ + n,
                           !.saved_batches = Append(@, <<q.i + 1, q.i + Len(batch)>>),
                           !.reported = Append(@, n)]
    IN IF LoopDone(q.new_rows, q.i)
       THEN [saved EXCEPT !.pc = "responded",
                          !.response = SuccessResult(dep, q.calendar_id,
                                           q.approved_posts_found,
                                           q.total_saved_count + n).response,
                          !.outcome = SuccessResult(dep, q.calendar_id,
                                          q.approved_posts_found,
                                          q.total_saved_count + n).outcome]
       ELSE [saved EXCEPT !.i = @ + BATCH_SIZE, !.attempt = 1, !.errors = <<>>]

\* a loop that logs the failure of a batch and goes on with the next one
AfterFailed_Continue(dep, q, msg) ==
    IF LoopDone(q.new_rows, q.i)
    THEN [q EXCEPT !.pc = "responded",
                   !.failed_batch = BatchNum(q.i),
                   !.response = BatchFailedResult(dep, msg).response,
                   !.outcome = BatchFailedResult(dep, msg).outcome]
    ELSE [q EXCEPT !.failed_batch = BatchNum(q.i),
                   !.i = @ + BATCH_SIZE, !.attempt = 1]

\* upsert_batch raised out of the retry wrapper: the loop is left
AfterFailed(dep, q, msg) ==
    [q EXCEPT !.pc = "responded",
              !.failed_batch = BatchNum(q.i),
              !.response = BatchFailedResult(dep, msg).response,
              !.outcome = BatchFailedResult(dep, msg).outcome]

\* the message of the exception that leaves the retry wrapper
ErrorMessage(kind) ==
    IF kind = "transient" THEN "RetryError[ReadError]"
    ELSE "Supabase error: constraint violation"

\* one attempt of upsert_batch raised an exception of the given kind: the
\* wrapper calls again or lets the exception out to the batch loop
AfterError(dep, q, kind) ==
    IF ShouldRetry(kind, q.attempt)
    THEN [q EXCEPT !.attempt = @ + 1, !.errors = Append(@, kind)]
    ELSE AfterFailed(dep, [q EXCEPT !.errors = Append(@, kind)], ErrorMessage(kind))

\* client.from_(...).upsert(batch, on_conflict="post_id").execute() is
\* called once more, through the handle the handler passed to upsert_batch;
\* the calls are counted where the environment asks for it
Attempted(q, counting) ==
    [q EXCEPT !.upsert_calls = IF counting THEN @ + 1 ELSE @,
              !.upsert_clients = @ \cup {HandlerClient(q.g)}]

\* one attempt of upsert_batch that the store answers with data
UpsertOk(r) ==
    /\ req[r].pc = "writing"
    /\ ~DuplicateKeys(Batch(req[r].new_rows, req[r].i))
    /\ \E n \in {Len(Batch(req[r].new_rows, req[r].i)), 0} :
         req' = [req EXCEPT ![r] = AfterSaved(deployment, Attempted(req[r], env.counting), n)]
    /\ posts' = StoreUpsert(posts, Batch(req[r].new_rows, req[r].i))
    /\ UNCHANGED <<env, deployment, AUTH_ENABLED, admin_client_ok, calendar_data>>

\* one attempt that ends in httpx.ReadError / httpx.ConnectError; a read
\* failure can follow a write the store has already applied
UpsertTransient(r) ==
    /\ req[r].pc = "writing"
    /\ req' = [req EXCEPT ![r] = AfterError(deployment, Attempted(req[r], env.counting), "transient")]
    /\ \E applied \in BOOLEAN :
         /\ applied => ~DuplicateKeys(Batch(req[r].new_rows, req[r].i))
         /\ posts' = IF applied
                     THEN StoreUpsert(posts, Batch(req[r].new_rows, req[r].i))
                     ELSE posts
    /\ UNCHANGED <<env, deployment, AUTH_ENABLED, admin_client_ok, calendar_data>>

\* one attempt the store answers with an error (response.error): not retried
UpsertSemantic(r) ==
    /\ req[r].pc = "writing"
    /\ req' = [req EXCEPT ![r] = AfterError(deployment, Attempted(req[r], env.counting), "semantic")]
    /\ UNCHANGED <<env, deployment, AUTH_ENABLED, admin_client_ok, calendar_data, posts>>

Next ==
    \E r \in Requests :
        \/ TokenRequired(r)
        \/ Handler(r)
        \/ UpsertOk(r)
        \/ UpsertTransient(r)
        \/ UpsertSemantic(r)

Spec == Init /\ [][Next]_vars

SpecPair == InitPair /\ [][Next]_vars

\* the worker that runs a request keeps running: a request that can take a
\* step takes one; what the store answers stays free
SpecLive == Init /\ [][Next]_vars /\ WF_vars(Next)

(***************************************************************************)
(* Properties                                                              *)
(***************************************************************************)
\* the decorator called the wrapped handler for request r
LetThrough(r) ==
    \/ req[r].pc \in {"authorized", "writing"}
    \/ req[r].pc = "responded" /\ req[r].handler_called

\* the token the caller presented
TokenOf(header) == Split(header)[2]

\* rows of the output table written by request r
WrittenBy(r) == {row \in posts : row.id[1] = r}

\* C1: with enforcement on, a request that reaches the handler holds the
\* process-wide full-access handle exactly when the role in the caller's
\* profile is "admin"; for every other role (unknown or absent included) it
\* holds a handle built in this request from the anon key and authenticated
\* with the caller's own token.
C1_HandleFollowsRole ==
    \A r \in Requests :
        (AUTH_ENABLED /\ LetThrough(r)) =>
            LET tok == TokenOf(req[r].header)
                role == Profiles[GetUser(tok)].role
                h == req[r].g.supabase_client
            IN /\ req[r].g.current_user_role = role
               /\ (h = AdminClient <=> role = "admin")
               /\ (role # "admin" =>
                      h = [key |-> "anon", token |-> tok, builtBy |-> r])

C1_Witness ==
    \E r \in Requests :
        /\ AUTH_ENABLED /\ LetThrough(r)
        /\ Profiles[GetUser(TokenOf(req[r].header))].role = None
        /\ req[r].g.supabase_client.key = "anon"
        /\ req[r].g.supabase_client.builtBy = r

\* the calendar row is absent, or exists and belongs to somebody else
HiddenOrAbsent(cid, uid) ==
    cid \notin DOMAIN calendar_data \/ calendar_data[cid].user_id # uid

\* the store that differs from table only in that the row cid is absent
\* instead of owned by another user, or the other way round
Sibling(table, cid) ==
    IF cid \in DOMAIN table
    THEN [c \in DOMAIN table \ {cid} |-> table[c]]
    ELSE [c \in DOMAIN table \cup {cid} |->
             IF c = cid
             THEN CalendarRow("uZ", "instagram", SmallItems(deployment))
             ELSE table[c]]

\* request r as the decorator handed it to the handler
AsAuthorized(r) ==
    [IdleRequest EXCEPT !.pc = "authorized", !.header = req[r].header,
                        !.g = req[r].g, !.idpCalls = req[r].idpCalls,
                        !.profileReads = req[r].profileReads,
                        !.arrived_after = req[r].arrived_after]

\* C2: non-leakage. A non-admin caller asking for a calendar row that is
\* absent or owned by another user gets 404 "not found or access denied";
\* the whole answer is the one the same request gets from the store in which
\* the row is in the other of the two conditions, and no row is written.
C2_NonLeakage ==
    \A r \in Requests :
        ( /\ AUTH_ENABLED
          /\ req[r].handler_called
          /\ req[r].g.current_user_role # "admin"
          /\ BodyError(req[r].data) = ""
          /\ HiddenOrAbsent(req[r].calendar_id, req[r].g.current_user_id) ) =>
            /\ req[r].pc = "responded"
            /\ (req[r].fetch # "raised" =>
                  req[r].response =
                      [status |-> 404,
                       body |-> [error |-> "Calendar data not found or access denied"]])
            /\ HandlerStart(deployment, Sibling(calendar_data, req[r].calendar_id),
                            r, AsAuthorized(r), req[r].data,
                            req[r].fetch = "raised") = req[r]
            /\ req[r].new_rows = <<>>
            /\ WrittenBy(r) = {}

C2_Witness ==
    \E r \in Requests :
        /\ AUTH_ENABLED
        /\ req[r].handler_called
        /\ req[r].g.current_user_role # "admin"
        /\ req[r].calendar_id \in DOMAIN calendar_data
        /\ calendar_data[req[r].calendar_id].user_id # req[r].g.current_user_id
        /\ req[r].response.status = 404

\* the summary dict of a run that came to its final return: the body of the
\* response in main.py, the result of process_calendar_posts elsewhere
Summary(r) ==
    IF deployment = "main" THEN req[r].response.body ELSE req[r].outcome.result

\* request r ended with the summary of a completed run
Succeeded(r) ==
    /\ req[r].pc = "responded"
    /\ req[r].failed_batch = 0
    /\ IF deployment = "main"
       THEN req[r].response.status = 200
       ELSE req[r].outcome.kind = "return"
    /\ Summary(r).message = "Successfully processed approved posts."

RowsOf(r) == {req[r].new_rows[k] : k \in 1..Len(req[r].new_rows)}

KeysOf(r) == {row.post_id : row \in RowsOf(r)}

\* C3: upsert idempotence. The output table never holds two rows with the
\* same post_id, and when a successful run is followed by another successful
\* run, every row of the later run is in the table and every row of the
\* earlier run whose post_id the later run submitted again is gone.
C3_UpsertIdempotent ==
    /\ Cardinality({row.post_id : row \in posts}) = Cardinality(posts)
    /\ \A r1, r2 \in Requests :
          (r1 \in req[r2].arrived_after /\ Succeeded(r1) /\ Succeeded(r2)) =>
              /\ RowsOf(r2) \subseteq posts
              /\ \A row \in RowsOf(r1) :
                    row.post_id \in KeysOf(r2) => row \notin posts

C3_Witness ==
    \E r1, r2 \in Requests :
        /\ r1 \in req[r2].arrived_after /\ Succeeded(r1) /\ Succeeded(r2)
        /\ req[r1].calendar_id = req[r2].calendar_id
        /\ RowsOf(r1) # {}
        /\ RowsOf(r1) \cap posts = {}
        /\ RowsOf(r2) = posts

\* the request ended in a processing failure
EndsInFailure(r) ==
    /\ req[r].pc = "responded"
    /\ IF deployment = "main"
       THEN req[r].response.status = 500
       ELSE req[r].outcome.kind = "raise"

\* C4: partial failure. When the upsert of chunk k fails, the loop stops at
\* chunk k (no later chunk is issued or saved), the request ends in a
\* processing failure, and the rows of chunks 1..k-1 are still in the table.
C4_PartialFailure ==
    \A r \in Requests :
        req[r].failed_batch > 0 =>
            LET k == req[r].failed_batch IN
            /\ EndsInFailure(r)
            /\ req[r].i = (k - 1) * 50
            /\ Len(req[r].saved_batches) = k - 1
            /\ \A j \in 1..Len(req[r].new_rows) :
                  /\ j <= (k - 1) * 50 => req[r].new_rows[j] \in posts
                  /\ j > k * 50 => req[r].new_rows[j] \notin posts

C4_Witness ==
    \E r \in Requests :
        /\ req[r].failed_batch = 2
        /\ EndsInFailure(r)
        /\ \A j \in 1..50 : req[r].new_rows[j] \in posts

\* C5: retry policy. A chunk is attempted at most 3 times; every failure that
\* was followed by another attempt was a transient one; a failure that ends
\* the chunk is either a transient one on the 3rd attempt or a semantic one
\* on the attempt on which it occurred, and it ends the request.
C5_RetryPolicy ==
    \A r \in Requests :
        LET es == req[r].errors IN
        /\ req[r].pc = "writing" =>
              /\ req[r].attempt \in 1..3
              /\ Len(es) = req[r].attempt - 1
              /\ \A e \in 1..Len(es) : es[e] = "transient"
        /\ req[r].failed_batch > 0 =>
              /\ req[r].pc = "responded"
              /\ Len(es) \in 1..3
              /\ Len(es) = req[r].attempt
              /\ \A e \in 1..(Len(es) - 1) : es[e] = "transient"
              /\ es[Len(es)] = "transient" => Len(es) = 3

C5_Witness ==
    \E r \in Requests :
        /\ req[r].failed_batch > 0
        /\ req[r].errors = <<"transient", "transient", "transient">>
        /\ EndsInFailure(r)

\* C6: chunking. The chunks saved so far are the consecutive slices of 50
\* rows of the row list, in list order; the chunk in flight is the one after
\* the last saved chunk; a run without a failed chunk has saved ceil(N/50)
\* chunks, each of 1..50 rows and only the last one shorter than 50, which
\* together are the whole row list.
C6_Chunking ==
    \A r \in Requests :
        LET N == Len(req[r].new_rows)
            sb == req[r].saved_batches
        IN
        /\ \A k \in 1..Len(sb) :
              /\ sb[k] = <<50 * (k - 1) + 1, Min(50 * k, N)>>
              /\ sb[k][2] - sb[k][1] + 1 \in 1..50
              /\ k < Len(sb) => sb[k][2] - sb[k][1] + 1 = 50
        /\ req[r].pc = "writing" =>
              /\ req[r].i = 50 * Len(sb)
              /\ req[r].i < N
        /\ Succeeded(r) =>
              /\ Len(sb) = (N + 49) \div 50
              /\ (N > 0 => sb[Len(sb)][2] = N)
              /\ RowsOf(r) \subseteq posts

C6_Witness ==
    \E r \in Requests :
        /\ Succeeded(r)
        /\ Len(req[r].new_rows) = BigCount
        /\ Len(req[r].saved_batches) = 2
        /\ req[r].saved_batches[2][2] - req[r].saved_batches[2][1] + 1 < 50

LackingId(item) == item.id = None \/ item.id = ""

\* the store reported every row of every saved chunk
AllReported(r) ==
    /\ Len(req[r].reported) = Len(req[r].saved_batches)
    /\ \A k \in 1..Len(req[r].reported) :
          req[r].reported[k] =
              req[r].saved_batches[k][2] - req[r].saved_batches[k][1] + 1

\* C7: approved items without an identifier are skipped: they are counted,
\* they are in no prepared or written row, and they do not fail the run;
\* approved items found = rows prepared + items skipped, and a successful
\* run in which the store reported every row answers
\* posts_saved_count = approved_posts_found - skipped.
C7_SkipAccounting ==
    \A r \in Requests :
        (req[r].fetch = "row" /\ req[r].approved_posts_found > 0) =>
            LET items == calendar_data[req[r].calendar_id].calendar_data.content_items
                approved == {k \in 1..Len(items) :
                                items[k].status = ApprovedMarker(deployment)}
                lacking == {k \in approved : LackingId(items[k])}
            IN
            /\ req[r].approved_posts_found = Cardinality(approved)
            /\ req[r].skipped_count = Cardinality(lacking)
            /\ req[r].approved_posts_found =
                  Len(req[r].new_rows) + req[r].skipped_count
            /\ \A row \in RowsOf(r) \cup WrittenBy(r) :
                  row.post_id \notin {None, ""}
            /\ (req[r].pc = "responded" /\ req[r].failed_batch = 0) => Succeeded(r)
            /\ (Succeeded(r) /\ AllReported(r)) =>
                  /\ Summary(r).approved_posts_found = req[r].approved_posts_found
                  /\ Summary(r).posts_saved_count =
                        req[r].approved_posts_found - req[r].skipped_count

C7_Witness ==
    \E r \in Requests :
        /\ Succeeded(r) /\ AllReported(r)
        /\ req[r].skipped_count = 2
        /\ req[r].approved_posts_found = 4
        /\ Summary(r).posts_saved_count = 2

\* C8: a calendar row without any approved item is answered with 200 and
\* the body {message: "No approved posts to process.",
\* approved_posts_found: 0, posts_saved_count: 0}, and nothing is upserted.
C8_ZeroApproved ==
    \A r \in Requests :
        ( /\ req[r].fetch = "row"
          /\ \A k \in 1..Len(calendar_data[req[r].calendar_id]
                                  .calendar_data.content_items) :
                calendar_data[req[r].calendar_id].calendar_data.content_items[k].status
                    # ApprovedMarker(deployment) ) =>
            /\ req[r].pc = "responded"
            /\ req[r].response.status = 200
            /\ req[r].response.body =
                  [message |-> "No approved posts to process.",
                   approved_posts_found |-> 0, posts_saved_count |-> 0]
            /\ req[r].saved_batches = <<>>
            /\ WrittenBy(r) = {}

\* C9 as claimed: with enforcement on, a request without an Authorization
\* header is answered 401 "Authorization header is missing" and the identity
\* provider is not contacted.
C9_MissingHeaderAlways ==
    \A r \in Requests :
        (AUTH_ENABLED /\ req[r].pc # "idle" /\ req[r].header = NoHeader) =>
            /\ req[r].response =
                  [status |-> 401, body |-> [error |-> "Authorization header is missing"]]
            /\ req[r].idpCalls = 0

\* C9 amended: with enforcement on and the admin client built at start
\* (always the case in main.py), a request without an Authorization header is
\* answered 401 "Authorization header is missing", the identity provider is
\* not contacted and the handler is not called; without the admin client the
\* auth modules answer 500 before they look at the header.
C9_MissingHeader ==
    \A r \in Requests :
        (AUTH_ENABLED /\ req[r].pc # "idle" /\ req[r].header = NoHeader) =>
            /\ req[r].pc = "responded"
            /\ req[r].idpCalls = 0
            /\ req[r].profileReads = 0
            /\ ~req[r].handler_called
            /\ IF deployment = "main" \/ admin_client_ok
               THEN req[r].response =
                        [status |-> 401,
                         body |-> [error |-> "Authorization header is missing"]]
               ELSE req[r].response =
                        [status |-> 500,
                         body |-> [error |->
                             "Admin client for authentication is not initialized"]]

C9_Witness ==
    \E r \in Requests :
        /\ AUTH_ENABLED /\ req[r].header = NoHeader
        /\ req[r].response.status = 401
        /\ req[r].idpCalls = 0

\* the credential is missing, malformed, rejected by the provider, or it
\* names a subject without a profile
CredentialBad(header) ==
    \/ header = NoHeader
    \/ Len(Split(header)) < 2
    \/ GetUser(Split(header)[2]) \in {"reject", None}
    \/ ~HasProfile(GetUser(Split(header)[2]))

\* C10: with enforcement on, a request whose credential the resolver does
\* not accept ends with an error response of the resolver; the handler is
\* never called for it: no calendar_data read, no rows prepared, no upsert.
C10_ShortCircuit ==
    \A r \in Requests :
        (AUTH_ENABLED /\ req[r].pc # "idle" /\ CredentialBad(req[r].header)) =>
            /\ req[r].pc = "responded"
            /\ ~req[r].handler_called
            /\ req[r].g = NoG
            /\ req[r].fetch = "none"
            /\ req[r].new_rows = <<>>
            /\ req[r].saved_batches = <<>>
            /\ WrittenBy(r) = {}
            /\ DOMAIN req[r].response.body = {"error"}
            /\ req[r].response.status \in {401, 404, 500}
            /\ req[r].response.status = 500 => ~admin_client_ok

C10_Witness ==
    \E r \in Requests :
        /\ AUTH_ENABLED /\ req[r].pc = "responded"
        /\ Len(Split(req[r].header)) >= 2
        /\ GetUser(TokenOf(req[r].header)) = "uE"
        /\ req[r].response.status = 404
        /\ ~req[r].handler_called
        /\ req[r].profileReads = 1

\* the header has no second space-separated part, or that part is empty
Unparseable(header) ==
    \/ \A k \in 1..Len(header) : header[k] # " "
    \/ \E k \in 1..Len(header) :
          /\ header[k] = " "
          /\ \A j \in 1..(k - 1) : header[j] # " "
          /\ (k = Len(header) \/ header[k + 1] = " ")

\* C11: with enforcement on and the admin client built, every presented
\* (non-empty) Authorization header that cannot be parsed into
\* "<scheme> <token>" (no second space-separated part, or an empty token
\* part) is answered 401 with the invalid-format error, without the identity
\* provider being called, and the handler is not called.
C11_MalformedCredential ==
    \A r \in Requests :
        ( /\ AUTH_ENABLED /\ admin_client_ok
          /\ req[r].pc # "idle"
          /\ req[r].header \notin {NoHeader, <<>>}
          /\ Unparseable(req[r].header) ) =>
            /\ req[r].pc = "responded"
            /\ req[r].response.status = 401
            /\ req[r].response.body.error \in
                  {"Invalid Authorization header format",
                   "Invalid Authorization header format. Expected: 'Bearer <token>'"}
            /\ req[r].idpCalls = 0
            /\ req[r].profileReads = 0
            /\ ~req[r].handler_called

\* the provider answered the token of request r with a subject
TokenValidated(r) ==
    /\ req[r].idpCalls = 1
    /\ GetUser(TokenOf(req[r].header)) \notin {"reject", None}

\* C12: when the identity provider accepted the token but the profiles table
\* has no row for its subject, the request is answered 404 "User profile not
\* found" (not 401) and the handler is not called.
C12_ProfileNotFound ==
    \A r \in Requests :
        ( /\ AUTH_ENABLED
          /\ TokenValidated(r)
          /\ GetUser(TokenOf(req[r].header)) \notin DOMAIN Profiles ) =>
            /\ req[r].pc = "responded"
            /\ req[r].response =
                  [status |-> 404, body |-> [error |-> "User profile not found"]]
            /\ req[r].profileReads = 1
            /\ ~req[r].handler_called
            /\ req[r].g = NoG
            /\ req[r].fetch = "none"
            /\ WrittenBy(r) = {}

C12_Witness ==
    \E r \in Requests :
        /\ AUTH_ENABLED /\ req[r].pc = "responded"
        /\ req[r].header = <<"Bearer", " ", "tokNoProfile">>
        /\ req[r].idpCalls = 1
        /\ req[r].response.status = 404
        /\ req[r].response.body.error = "User profile not found"

\* C13: with enforcement off the identity provider is not contacted, no
\* profile is read and the header plays no part: when the admin client was
\* built at start the handler runs as "auth-disabled-admin" with role admin
\* and the admin client; when it was not, the request is answered 500 and
\* the handler is not called.
C13_EnforcementOff ==
    \A r \in Requests :
        (~AUTH_ENABLED /\ req[r].pc # "idle") =>
            /\ req[r].idpCalls = 0
            /\ req[r].profileReads = 0
            /\ \A h \in Headers \cup {NoHeader} :
                  decorated_function(deployment, AUTH_ENABLED, admin_client_ok, r, h)
                      = decorated_function(deployment, AUTH_ENABLED,
                                           admin_client_ok, r, req[r].header)
            /\ IF admin_client_ok
               THEN /\ LetThrough(r)
                    /\ req[r].g =
                          [current_user_id |-> "auth-disabled-admin",
                           current_user_role |-> "admin",
                           supabase_client |->
                               [key |-> "service_role", token |-> <<>>, builtBy |-> 0]]
               ELSE /\ req[r].pc = "responded"
                    /\ req[r].response.status = 500
                    /\ DOMAIN req[r].response.body = {"error"}
                    /\ ~req[r].handler_called
                    /\ req[r].fetch = "none"
                    /\ WrittenBy(r) = {}

C13_Witness ==
    \E r \in Requests :
        /\ ~AUTH_ENABLED /\ admin_client_ok
        /\ req[r].header = <<"Bearer", " ", "tokExpired">>
        /\ req[r].handler_called
        /\ req[r].g.current_user_id = "auth-disabled-admin"
        /\ req[r].fetch = "row"

\* C14: a request that passed the resolver and whose body has no
\* calendarRowId field is answered 400 with a validation error, which is
\* none of the resolver's answers (401, 404, 500 and their messages); no
\* calendar_data read and no upsert is issued for it.
C14_BodyValidation ==
    \A r \in Requests :
        (req[r].handler_called /\ "calendarRowId" \notin req[r].data.fields) =>
            /\ req[r].pc = "responded"
            /\ req[r].response.status = 400
            /\ req[r].response.body.error \in
                  {"Invalid JSON payload", "Invalid payload: calendarRowId is required"}
            /\ \A h \in Headers \cup {NoHeader}, e \in BOOLEAN, a \in BOOLEAN :
                  decorated_function(deployment, e, a, r, h).response
                      # req[r].response
            /\ req[r].fetch = "none"
            /\ req[r].calendar_id = None
            /\ req[r].new_rows = <<>>
            /\ req[r].saved_batches = <<>>
            /\ req[r].attempt = 0
            /\ WrittenBy(r) = {}

C14_Witness ==
    \E r \in Requests :
        /\ AUTH_ENABLED
        /\ req[r].g.current_user_id = "uB"
        /\ req[r].handler_called
        /\ req[r].data.fields = {"other"}
        /\ req[r].response.status = 400
        /\ req[r].fetch = "none"

\* the items of the calendar document request r read
DocItems(r) == calendar_data[req[r].calendar_id].calendar_data.content_items

\* the approved items with an identifier, in document order
SourceItems(r) ==
    SelectSeq(DocItems(r),
              LAMBDA it : it.status = ApprovedMarker(deployment)
                            /\ it.id \notin {None, ""})

\* request r read a calendar row with a list of items and prepared rows
Prepared(r) == req[r].fetch = "row" /\ Len(req[r].new_rows) > 0

\* C15: the image field of every prepared row is (a) the item's image_link
\* when that is a non-empty string, else (b) the JSON text of the item's
\* carousel when that is a non-empty list, else (c) null; an empty or
\* non-string image_link is never the image field; rows are written as
\* prepared.
C15_ImageResolution ==
    \A r \in Requests :
        Prepared(r) =>
            /\ Len(req[r].new_rows) = Len(SourceItems(r))
            /\ \A j \in 1..Len(req[r].new_rows) :
                  LET it == SourceItems(r)[j]
                      img == req[r].new_rows[j].image_link
                  IN /\ req[r].new_rows[j].post_id = it.id
                     /\ IF it.image_link \notin {None, "", "<int 7>"}
                        THEN img = it.image_link
                        ELSE IF it.carousel \notin {<<None>>, <<>>}
                        THEN img = JsonDumps(it.carousel)
                        ELSE img = None
                     /\ img \notin {"", "<int 7>"}
            /\ WrittenBy(r) \subseteq RowsOf(r)

C15_Witness ==
    \E r \in Requests :
        /\ Succeeded(r)
        /\ \E row \in WrittenBy(r) :
              row.post_id = "q1" /\ row.image_link = "[\"http://c/9\"]"
        /\ \E row \in WrittenBy(r) :
              /\ row.post_id = "q3"
              /\ row.image_link = "[\"http://c/1\", \"http://c/2\"]"
        /\ \E row \in WrittenBy(r) :
              row.post_id = "q4" /\ row.image_link = "http://img/4"
        /\ \E row \in WrittenBy(r) : row.post_id = "q2" /\ row.image_link = None

\* C16: the original_json of every prepared row is the item exactly as it
\* is in the calendar document, its status included.
C16_OriginalVerbatim ==
    \A r \in Requests :
        Prepared(r) =>
            \A j \in 1..Len(req[r].new_rows) :
                /\ req[r].new_rows[j].original_json = SourceItems(r)[j]
                /\ req[r].new_rows[j].original_json.status
                      = ApprovedMarker(deployment)

\* C17: every prepared or written row has the user_id and the platform of
\* the calendar row it came from, and its triggering-user field updated_by
\* is the identity of the caller.
C17_OwnerFromParent ==
    \A r \in Requests :
        Prepared(r) =>
            \A row \in RowsOf(r) \cup WrittenBy(r) :
                /\ row.user_id = calendar_data[req[r].calendar_id].user_id
                /\ row.platform = calendar_data[req[r].calendar_id].platform
                /\ "updated_by" \in DOMAIN row
                /\ row.updated_by = req[r].g.current_user_id

\* C18: a scheduled_datetime that is absent or cannot be parsed fails neither
\* the item nor the run: every approved item with an identifier has exactly
\* one prepared row, whatever its scheduled_datetime; the row carries the
\* item's scheduled_datetime unchanged; where the row has month and year
\* they are null unless the value parses; a run that came to its end
\* without a failed chunk is a success.
C18_DateNeverFatal ==
    \A r \in Requests :
        (req[r].fetch = "row" /\ req[r].approved_posts_found > 0) =>
            /\ Len(req[r].new_rows) = Len(SourceItems(r))
            /\ \A j \in 1..Len(req[r].new_rows) :
                  LET it == SourceItems(r)[j]
                      row == req[r].new_rows[j]
                  IN /\ row.post_id = it.id
                     /\ row.scheduled_datetime = it.scheduled_datetime
                     /\ (deployment = "main") = ({"month", "year"} \subseteq DOMAIN row)
                     /\ (deployment = "main"
                            /\ it.scheduled_datetime # "2026-03-15T10:00:00Z") =>
                              (row.month = None /\ row.year = None)
            /\ (req[r].pc = "responded" /\ req[r].failed_batch = 0) => Succeeded(r)

C18_Witness ==
    \E r \in Requests :
        /\ deployment = "main"
        /\ Succeeded(r)
        /\ \E row \in WrittenBy(r) :
              /\ row.post_id = "p3" /\ row.scheduled_datetime = "next week"
              /\ row.month = None /\ row.year = None
        /\ \E row \in WrittenBy(r) : row.post_id = "p1" /\ row.month = "March"

\* C19: an exception of the calendar_data read, of reading the calendar
\* document, or of a chunk (after its retries) ends the request with a 500
\* response whose error is the message of the exception; a request has no
\* response before it ends and ends with one response whose status is one
\* of 200, 400, 401, 404, 500.
C19_ErrorsSurfaced ==
    \A r \in Requests :
        /\ (req[r].pc # "responded") = (req[r].response = NoResponse)
        /\ req[r].pc = "responded" =>
              req[r].response.status \in {200, 400, 401, 404, 500}
        /\ req[r].fetch = "raised" =>
              req[r].response = [status |-> 500, body |-> [error |-> "ConnectError"]]
        /\ req[r].fetch = "malformed" =>
              req[r].response =
                  [status |-> 500,
                   body |-> [error |-> "'NoneType' object is not iterable"]]
        /\ req[r].failed_batch > 0 =>
              req[r].response =
                  [status |-> 500,
                   body |-> [error |->
                       IF req[r].errors[Len(req[r].errors)] = "transient"
                       THEN "Failed to save batch: RetryError[ReadError]"
                       ELSE "Failed to save batch: Supabase error: constraint violation"]]

C19_Witness ==
    \E r \in Requests :
        /\ req[r].pc = "responded"
        /\ req[r].handler_called
        /\ req[r].calendar_id = "calBad"
        /\ req[r].fetch = "malformed"
        /\ req[r].response.status = 500
        /\ req[r].response.body.error = "'NoneType' object is not iterable"

RECURSIVE SumSeq(_)
SumSeq(seq) == IF seq = <<>> THEN 0 ELSE Head(seq) + SumSeq(Tail(seq))

\* C20: the summary of a successful run has posts_saved_count equal to the
\* sum of the row counts the store reported for the chunks (not the number
\* of rows submitted) and approved_posts_found equal to the number of items
\* of the document with the approved status, identifier or not.
C20_Counts ==
    \A r \in Requests :
        Succeeded(r) =>
            /\ Len(req[r].reported) = Len(req[r].saved_batches)
            /\ Summary(r).posts_saved_count = SumSeq(req[r].reported)
            /\ Summary(r).approved_posts_found =
                  Cardinality({k \in 1..Len(DocItems(r)) :
                                  DocItems(r)[k].status = ApprovedMarker(deployment)})

C20_Witness ==
    \E r \in Requests :
        /\ Succeeded(r)
        /\ req[r].reported = <<50, 0>>
        /\ Len(req[r].new_rows) = BigCount
        /\ Summary(r).posts_saved_count = 50

\* C21: the status of every prepared or written row differs from the status
\* of the item it came from, and no row in the output table has an approved
\* marker as its status.
C21_WorkingStatus ==
    /\ \A row \in posts : row.status \notin {"approved", "ApprovedCalendar"}
    /\ \A r \in Requests :
          Prepared(r) =>
              \A j \in 1..Len(req[r].new_rows) :
                  req[r].new_rows[j].status # SourceItems(r)[j].status

\* request r was resolved to a restricted identity
Restricted(r) ==
    /\ AUTH_ENABLED /\ LetThrough(r)
    /\ req[r].g.current_user_role # "admin"

\* the handles request r read or wrote through
HandlesUsed(r) ==
    req[r].upsert_clients
        \cup (IF req[r].fetch = "none" THEN {} ELSE {req[r].fetch_client})

\* C22: with requests of different callers in flight together, a request
\* resolved to a restricted identity has the identity of its own token, its
\* handle was built in that request with that token, it reads and writes
\* through no other handle, and no other request holds or uses that handle.
C22_RequestScopedHandle ==
    \A r \in Requests :
        Restricted(r) =>
            LET tok == TokenOf(req[r].header)
                own == [key |-> "anon", token |-> tok, builtBy |-> r]
            IN /\ req[r].g.current_user_id = GetUser(tok)
               /\ req[r].g.current_user_role = Profiles[GetUser(tok)].role
               /\ req[r].g.supabase_client = own
               /\ HandlesUsed(r) \subseteq {own}
               /\ \A q \in Requests \ {r} :
                     /\ req[q].g.supabase_client # own
                     /\ own \notin HandlesUsed(q)

C22_Witness ==
    \E r1, r2 \in Requests :
        /\ r1 # r2
        /\ Restricted(r1) /\ Restricted(r2)
        /\ req[r1].g.current_user_id = "uB" /\ req[r2].g.current_user_id = "uC"
        /\ req[r1].pc = "writing" /\ req[r1].upsert_clients # {}
        /\ req[r1].calendar_id = req[r2].calendar_id
        /\ r1 \notin req[r2].arrived_after
        /\ req[r2].fetch = "null"
        /\ req[r2].fetch_client.token = <<"tokEditor">>

\* request r has ended
Finished(r) == req[r].pc = "responded"

\* C23: when two requests for the same calendar row have both ended,
\* however their upserts interleaved and whether or not one of them stopped
\* at a failed chunk, the output table has at most one row per post_id, and
\* if one of them succeeded it has exactly one row for every approved item
\* of the calendar that has an id.
C23_Convergence ==
    \A r1, r2 \in Requests :
        ( /\ r1 # r2
          /\ Finished(r1) /\ Finished(r2)
          /\ req[r1].fetch = "row" /\ req[r2].fetch = "row"
          /\ req[r1].calendar_id = req[r2].calendar_id ) =>
            LET keys == {row.post_id : row \in posts}
                items == SourceItems(r1)
            IN /\ Cardinality(keys) = Cardinality(posts)
               /\ (Succeeded(r1) \/ Succeeded(r2)) =>
                     {items[j].id : j \in 1..Len(items)} \subseteq keys

C23_Witness ==
    \E r1, r2 \in Requests :
        /\ r1 # r2
        /\ Finished(r1) /\ Finished(r2)
        /\ req[r1].calendar_id = "calBig" /\ req[r2].calendar_id = "calBig"
        /\ req[r1].failed_batch = 2
        /\ Succeeded(r2)
        /\ WrittenBy(r1) # {} /\ WrittenBy(r2) # {}
        /\ Cardinality(posts) = BigCount

\* the position of a request: received, authorized, persisting, responded
Rank(pc) ==
    CASE pc = "idle" -> 0
      [] pc = "authorized" -> 1
      [] pc = "writing" -> 2
      [] pc = "responded" -> 3

\* what a request has done shows that it did the earlier steps before:
\* handler after authorization, fetch after a valid body, filter after a
\* fetched row, rows after a non-empty filter, upserts after rows, a saved
\* chunk after an upsert, success after all chunks; and it has made at most
\* 3 * ceil(N / 50) upsert calls
C24_Order ==
    \A r \in Requests :
        LET N == Len(req[r].new_rows) IN
        /\ req[r].pc = "idle" => req[r] = IdleRequest
        /\ req[r].handler_called => (req[r].g # NoG /\ Rank(req[r].pc) >= 2)
        /\ req[r].pc = "authorized" => (req[r].g # NoG /\ ~req[r].handler_called)
        /\ req[r].fetch # "none" =>
              (req[r].handler_called /\ "calendarRowId" \in req[r].data.fields)
        /\ req[r].approved_posts_found > 0 => req[r].fetch = "row"
        /\ N > 0 => req[r].approved_posts_found >= N
        /\ req[r].pc = "writing" => (N > 0 /\ req[r].i < N)
        /\ req[r].upsert_calls > 0 => N > 0
        /\ req[r].saved_batches # <<>> => req[r].upsert_calls > 0
        /\ req[r].upsert_calls >= Len(req[r].saved_batches)
        /\ req[r].upsert_calls <= 3 * ((N + 49) \div 50)

\* no step takes a request back (an early exit goes straight to responded),
\* and what it has done stays done
C24_Forward ==
    \A r \in Requests :
        /\ Rank(req'[r].pc) >= Rank(req[r].pc)
        /\ req[r].pc = "responded" => req'[r] = req[r]
        /\ req[r].handler_called => req'[r].handler_called
        /\ req[r].fetch # "none" => req'[r].fetch = req[r].fetch
        /\ req[r].pc = "writing" =>
              /\ req'[r].new_rows = req[r].new_rows
              /\ req'[r].i >= req[r].i
              /\ Len(req'[r].saved_batches) >= Len(req[r].saved_batches)
              /\ req'[r].upsert_calls >= req[r].upsert_calls

\* every request of the environment has been answered
C24_AllResponded == \A r \in env.requests : req[r].pc = "responded"

\* C24: a request goes through received, authorized, source fetched, items
\* filtered, rows prepared, persisted, responded in this order and never
\* back; it makes at most 3 * ceil(N / 50) upsert calls for N prepared rows;
\* and every request is answered in the end, whatever the store answers.
C24_Lifecycle == []C24_Order /\ [][C24_Forward]_vars /\ <>C24_AllResponded

C24_Witness ==
    \E r \in Requests :
        /\ req[r].pc = "responded"
        /\ Len(req[r].new_rows) = BigCount
        /\ Len(req[r].saved_batches) = 1
        /\ req[r].failed_batch = 2
        /\ req[r].upsert_calls = 6

\* the number of positions of a sequence that satisfy a test
Count(seq, Test(_)) == Cardinality({k \in 1..Len(seq) : Test(seq[k])})

\* C25: the rows handed to the batch writer are the items of the document
\* with the approved status and a non-empty id, one row per item in document
\* order; nothing is merged by id (an id that two approved items share is
\* the post_id of two rows) and an item with another status gives no row.
C25_RowsAreApprovedItems ==
    \A r \in Requests :
        (req[r].fetch = "row" /\ req[r].approved_posts_found > 0) =>
            LET items == SourceItems(r)
                rows == req[r].new_rows
            IN /\ Len(rows) = Len(items)
               /\ \A j \in 1..Len(rows) : rows[j].post_id = items[j].id
               /\ \A j \in 1..Len(rows) :
                     Count(rows, LAMBDA row : row.post_id = rows[j].post_id)
                       = Count(DocItems(r),
                               LAMBDA it : /\ it.id = rows[j].post_id
                                           /\ it.status = ApprovedMarker(deployment))
               /\ Len(rows) =
                     Count(DocItems(r),
                           LAMBDA it : /\ it.status = ApprovedMarker(deployment)
                                       /\ it.id \notin {None, ""})
               /\ \A j \in 1..Len(rows) :
                     [rows[j].original_json EXCEPT
                         !.status = ApprovedMarker(deployment)] = items[j]

C25_Witness ==
    \E r \in Requests :
        /\ req[r].calendar_id = "calDup"
        /\ Len(req[r].new_rows) = 2
        /\ req[r].new_rows[1].post_id = "d1"
        /\ req[r].new_rows[2].post_id = "d1"
        /\ req[r].new_rows[1] # req[r].new_rows[2]
        /\ req[r].upsert_calls > 0

\* request r made an upsert call
Issued(r) ==
    \/ req[r].upsert_calls > 0
    \/ req[r].upsert_clients # {}
    \/ req[r].saved_batches # <<>>
    \/ req[r].errors # <<>>

\* request r ended with the answer of a calendar without approved items
ZeroApprovedAnswer(r) ==
    /\ req[r].response.status = 200
    /\ req[r].response.body.message = "No approved posts to process."

\* C26: a request answered 400, 401 or 404, or answered 200 "No approved
\* posts to process.", has made no upsert call and has written no row (the
\* table of a single request is empty); a request makes an upsert call only
\* after it passed the resolver, its body had a calendarRowId, the calendar
\* row exists and is visible to the caller, and the document has an item with
\* the approved status.
C26_NoWriteOnEarlyExit ==
    \A r \in Requests :
        /\ ( /\ req[r].pc = "responded"
             /\ \/ req[r].response.status \in {400, 401, 404}
                \/ ZeroApprovedAnswer(r) ) =>
               /\ ~Issued(r)
               /\ req[r].new_rows = <<>>
               /\ WrittenBy(r) = {}
               /\ env.requests = {r} => posts = {}
        /\ (Issued(r) \/ req[r].pc = "writing") =>
               /\ req[r].handler_called
               /\ AUTH_ENABLED => ~CredentialBad(req[r].header)
               /\ ~AUTH_ENABLED => req[r].g.current_user_id = "auth-disabled-admin"
               /\ "calendarRowId" \in req[r].data.fields
               /\ req[r].calendar_id \in DOMAIN calendar_data
               /\ \/ req[r].g.current_user_role = "admin"
                  \/ calendar_data[req[r].calendar_id].user_id
                        = req[r].g.current_user_id
               /\ \E k \in 1..Len(DocItems(r)) :
                     DocItems(r)[k].status = ApprovedMarker(deployment)

C26_Witness ==
    \E r \in Requests :
        /\ req[r].pc = "responded"
        /\ req[r].calendar_id = "cal2"
        /\ ZeroApprovedAnswer(r)
        /\ req[r].fetch = "row"
        /\ ~Issued(r)
        /\ posts = {}

\* C27: when the document has approved items and none of them has an id, the
\* request makes no upsert call and ends with the success summary
\* "Successfully processed approved posts.", approved_posts_found the number
\* of approved items and posts_saved_count 0.
C27_AllSkipped ==
    \A r \in Requests :
        ( /\ req[r].fetch = "row"
          /\ \E k \in 1..Len(DocItems(r)) :
                DocItems(r)[k].status = ApprovedMarker(deployment)
          /\ \A k \in 1..Len(DocItems(r)) :
                DocItems(r)[k].status = ApprovedMarker(deployment) =>
                    DocItems(r)[k].id \in {None, ""} ) =>
            /\ req[r].pc = "responded"
            /\ ~Issued(r)
            /\ WrittenBy(r) = {}
            /\ IF deployment = "main"
               THEN req[r].response.status = 200
               ELSE req[r].outcome.kind = "return"
            /\ Summary(r).message = "Successfully processed approved posts."
            /\ Summary(r).message # "No approved posts to process."
            /\ Summary(r).approved_posts_found =
                  Count(DocItems(r),
                        LAMBDA it : it.status = ApprovedMarker(deployment))
            /\ Summary(r).posts_saved_count = 0
            /\ Summary(r).processed_row_id = req[r].calendar_id

C27_Witness ==
    \E r \in Requests :
        /\ req[r].pc = "responded"
        /\ req[r].calendar_id = "calNoId"
        /\ req[r].fetch = "row"
        /\ Summary(r).approved_posts_found = 2
        /\ Summary(r).posts_saved_count = 0
        /\ req[r].skipped_count = 2
        /\ req[r].upsert_calls = 0

\* C28: the calendar_data read and every upsert call of a request go through
\* the one handle the resolver put into g for it; a request resolved to a
\* role other than admin reads and writes through its own anon-key handle
\* and never through the admin client.
C28_SingleHandle ==
    \A r \in Requests :
        req[r].handler_called =>
            /\ req[r].fetch # "none" => req[r].fetch_client = req[r].g.supabase_client
            /\ req[r].fetch = "none" => req[r].fetch_client.key = "none"
            /\ req[r].upsert_clients \subseteq {req[r].g.supabase_client}
            /\ (req[r].upsert_calls > 0) = (req[r].upsert_clients # {})
            /\ req[r].g.current_user_role # "admin" =>
                  \A c \in HandlesUsed(r) :
                      /\ c.key = "anon"
                      /\ c.token = TokenOf(req[r].header)
                      /\ c # [key |-> "service_role", token |-> <<>>, builtBy |-> 0]

C28_Witness ==
    \E r \in Requests :
        /\ AUTH_ENABLED
        /\ req[r].g.current_user_role = "user"
        /\ Succeeded(r)
        /\ req[r].fetch_client.key = "anon"
        /\ req[r].upsert_clients = {req[r].g.supabase_client}
        /\ WrittenBy(r) # {}

====
